---- MODULE Spec2Model ----
(***************************************************************************)
(* The image analysis pipeline of app.py: process_image (band selection,   *)
(* cv2.normalize, skimage threshold_otsu, binarisation), create_histogram  *)
(* (matplotlib/numpy histogram) and calculate_statistics, driven in the    *)
(* order main() calls them.                                                *)
(*                                                                         *)
(* Arrays are records [base, dtype, shape, data]: data is the flattened    *)
(* (C order) contents, base names the allocation the array's memory lives  *)
(* in, so that a numpy view (or the very same object) shares its base with *)
(* the array it was taken from and a copy gets a base of its own.          *)
(***************************************************************************)
EXTENDS Integers, Sequences, FiniteSets

\* ------------------------------------------------------------------------
\* Bounds of the model.
\* ------------------------------------------------------------------------

\* Largest number of pixels of a generated single-band image.
MaxPix == 3

\* Largest number of channels of a generated multi-band image.
MaxChan == 2

\* ------------------------------------------------------------------------
\* IEEE-754 binary64 arithmetic, as numpy performs it inside threshold_otsu.
\* TLC's integers are 32 bits wide, so a 53-bit significand is kept as a
\* little-endian sequence of limbs below LimbBase, without high zero limbs.
\* ------------------------------------------------------------------------

LimbBits == 14

LimbBase == 16384

MantBits == 53

RECURSIVE Pow2(_)
Pow2(k) == IF k = 0 THEN 1 ELSE 2 * Pow2(k - 1)

RECURSIVE BigFromInt(_)
BigFromInt(n) == IF n = 0 THEN << >>
                 ELSE <<n % LimbBase>> \o BigFromInt(n \div LimbBase)

RECURSIVE BigTrim(_)
BigTrim(a) == IF a = << >> THEN a
              ELSE IF a[Len(a)] = 0 THEN BigTrim(SubSeq(a, 1, Len(a) - 1))
              ELSE a

RECURSIVE BitLenInt(_)
BitLenInt(n) == IF n = 0 THEN 0 ELSE 1 + BitLenInt(n \div 2)

BigBitLen(a) == IF a = << >> THEN 0
                ELSE LimbBits * (Len(a) - 1) + BitLenInt(a[Len(a)])

\* -1, 0 or 1 as a < b, a = b or a > b.
RECURSIVE BigCmpFrom(_, _, _)
BigCmpFrom(a, b, i) ==
    IF i = 0 THEN 0
    ELSE IF a[i] < b[i] THEN -1
    ELSE IF a[i] > b[i] THEN 1
    ELSE BigCmpFrom(a, b, i - 1)

BigCmp(a, b) == IF Len(a) < Len(b) THEN -1
                ELSE IF Len(a) > Len(b) THEN 1
                ELSE BigCmpFrom(a, b, Len(a))

Limb(a, i) == IF i <= Len(a) THEN a[i] ELSE 0

RECURSIVE BigAddFrom(_, _, _, _)
BigAddFrom(a, b, i, carry) ==
    IF i > Len(a) /\ i > Len(b)
    THEN (IF carry = 0 THEN << >> ELSE <<carry>>)
    ELSE LET s == Limb(a, i) + Limb(b, i) + carry
         IN  <<s % LimbBase>> \o BigAddFrom(a, b, i + 1, s \div LimbBase)

BigAdd(a, b) == BigAddFrom(a, b, 1, 0)

\* a - b for a >= b.
RECURSIVE BigSubFrom(_, _, _, _)
BigSubFrom(a, b, i, borrow) ==
    IF i > Len(a) THEN << >>
    ELSE LET d == a[i] - Limb(b, i) - borrow
         IN  IF d < 0
             THEN <<d + LimbBase>> \o BigSubFrom(a, b, i + 1, 1)
             ELSE <<d>> \o BigSubFrom(a, b, i + 1, 0)

BigSub(a, b) == BigTrim(BigSubFrom(a, b, 1, 0))

\* a * s for 0 <= s < LimbBase.
RECURSIVE BigMulSmallFrom(_, _, _, _)
BigMulSmallFrom(a, s, i, carry) ==
    IF i > Len(a)
    THEN (IF carry = 0 THEN << >> ELSE <<carry>>)
    ELSE LET p == a[i] * s + carry
         IN  <<p % LimbBase>> \o BigMulSmallFrom(a, s, i + 1, p \div LimbBase)

BigMulSmall(a, s) == BigTrim(BigMulSmallFrom(a, s, 1, 0))

Zeros(n) == [i \in 1..n |-> 0]

BigShiftLimbs(a, n) == IF a = << >> THEN a ELSE Zeros(n) \o a

RECURSIVE BigMulFrom(_, _, _)
BigMulFrom(a, b, i) ==
    IF i > Len(b) THEN << >>
    ELSE BigAdd(BigShiftLimbs(BigMulSmall(a, b[i]), i - 1),
                BigMulFrom(a, b, i + 1))

BigMul(a, b) == BigMulFrom(a, b, 1)

\* a * 2^k.
BigShl(a, k) ==
    BigShiftLimbs(BigMulSmall(a, Pow2(k % LimbBits)), k \div LimbBits)

\* <<a div s, a mod s>> for 0 < s < LimbBase, long division from the top limb.
RECURSIVE BigDivSmallFrom(_, _, _, _)
BigDivSmallFrom(a, s, i, rem) ==
    IF i = 0 THEN <<<< >>, rem>>
    ELSE LET cur  == rem * LimbBase + a[i]
             rest == BigDivSmallFrom(a, s, i - 1, cur % s)
         IN  <<rest[1] \o <<cur \div s>>, rest[2]>>

BigDivSmall(a, s) ==
    LET r == BigDivSmallFrom(a, s, Len(a), 0)
    IN  <<BigTrim(r[1]), r[2]>>

\* a div 2^k.
BigShr(a, k) ==
    LET n == k \div LimbBits
    IN  IF n >= Len(a) THEN << >>
        ELSE BigDivSmall(SubSeq(a, n + 1, Len(a)), Pow2(k % LimbBits))[1]

\* A binary64 value sgn * man * 2^exp: sgn is 0 for zero, else 1 or -1 with
\* man of exactly MantBits bits.
FZero == [sgn |-> 0, man |-> << >>, exp |-> 0]

\* Round sgn * big * 2^exp to the nearest binary64, ties to even.
RoundToFloat(sgn, big, exp) ==
    IF big = << >> \/ sgn = 0 THEN FZero
    ELSE LET L == BigBitLen(big)
         IN  IF L <= MantBits
             THEN [sgn |-> sgn, man |-> BigShl(big, MantBits - L),
                   exp |-> exp - (MantBits - L)]
             ELSE LET k    == L - MantBits
                      q    == BigShr(big, k)
                      r    == BigSub(big, BigShl(q, k))
                      half == BigCmp(BigShl(r, 1), BigShl(<<1>>, k))
                      up   == half = 1 \/ (half = 0 /\ q[1] % 2 = 1)
                      q1   == IF up THEN BigAdd(q, <<1>>) ELSE q
                  IN  IF BigBitLen(q1) > MantBits
                      THEN [sgn |-> sgn, man |-> BigShr(q1, 1), exp |-> exp + k + 1]
                      ELSE [sgn |-> sgn, man |-> q1, exp |-> exp + k]

\* Extra quotient bits of a division, enough for the quotient of two counts
\* or intensity sums to have more than MantBits bits.
DivShift == 70

\* fl(a / b) for integers a >= 0, b > 0: the quotient to DivShift fractional
\* bits, with a sticky bit for the remainder, rounded once.
FDiv(a, b) ==
    IF a = 0 THEN FZero
    ELSE LET qr == BigDivSmall(BigShl(BigFromInt(a), DivShift), b)
             q2 == BigShl(qr[1], 1)
             qs == IF qr[2] = 0 THEN q2 ELSE BigAdd(q2, <<1>>)
         IN  RoundToFloat(1, qs, 0 - DivShift - 1)

\* fl(x - y).
FSub(x, y) ==
    IF y.sgn = 0 THEN x
    ELSE IF x.sgn = 0 THEN [y EXCEPT !.sgn = 0 - y.sgn]
    ELSE LET e  == IF x.exp < y.exp THEN x.exp ELSE y.exp
             X  == BigShl(x.man, x.exp - e)
             Y  == BigShl(y.man, y.exp - e)
         IN  IF x.sgn # y.sgn
             THEN RoundToFloat(x.sgn, BigAdd(X, Y), e)
             ELSE LET c == BigCmp(X, Y)
                  IN  IF c = 0 THEN FZero
                      ELSE IF c > 0 THEN RoundToFloat(x.sgn, BigSub(X, Y), e)
                      ELSE RoundToFloat(0 - x.sgn, BigSub(Y, X), e)

\* fl(x * y).
FMul(x, y) ==
    RoundToFloat(x.sgn * y.sgn, BigMul(x.man, y.man), x.exp + y.exp)

\* The binary64 value of a non-negative integer.
FFromInt(n) == RoundToFloat(1, BigFromInt(n), 0)

\* x > y for x, y >= 0.
FGreater(x, y) ==
    IF x.sgn = 0 THEN FALSE
    ELSE IF y.sgn = 0 THEN TRUE
    ELSE IF x.exp # y.exp THEN x.exp > y.exp
    ELSE BigCmp(x.man, y.man) > 0

\* ------------------------------------------------------------------------
\* Arrays and the decoded images the pipeline is given.
\* ------------------------------------------------------------------------

\* The allocations: the decoded image, the array cv2.normalize(...).astype
\* creates, and the array img_band.copy() or the binarisation creates.
ImageBase == 1

NormBase == 2

ProcBase == 3

NoArray == [base |-> 0, dtype |-> "none", shape |-> << >>, data |-> << >>]

\* threshold_otsu's result is <<t>>; None is the empty sequence.
None == << >>

SeqMin(s) == CHOOSE x \in {s[i] : i \in DOMAIN s} :
                 \A i \in DOMAIN s : x <= s[i]

SeqMax(s) == CHOOSE x \in {s[i] : i \in DOMAIN s} :
                 \A i \in DOMAIN s : x >= s[i]

RECURSIVE SeqSum(_)
SeqSum(s) == IF s = << >> THEN 0 ELSE s[1] + SeqSum(Tail(s))

IsConstant(s) == \A i \in DOMAIN s : s[i] = s[1]

\* Intensities of the generated 8-bit single-band images: neighbouring low
\* levels (where candidate thresholds tie) and the top of the range.
Levels8 == {0, 1, 2, 255}

\* Values of the generated 16-bit and floating-point bands.  Every quotient
\* 255 / (max - min) over them (85, 51, 31.875) is exact in binary32, so
\* OpenCV's scaled values are the exact rationals computed below.
WideLevels == {0, 3, 8}

\* Values of the generated multi-band images.
ChannelLevels == {0, 8}

Array(dtype, shape, data) ==
    [base |-> ImageBase, dtype |-> dtype, shape |-> shape, data |-> data]

\* The 4x4 two-cluster band and the 2x2 quarter band of the specification's
\* examples.
Clusters4x4 ==
    Array("uint8", <<4, 4>>, [i \in 1..16 |-> IF i <= 8 THEN 10 ELSE 200])

Quarters2x2 == Array("uint8", <<2, 2>>, <<0, 64, 128, 255>>)

\* The 2x2 band [[0, 1], [1, 2]]: its histogram is symmetric, so the candidate
\* thresholds 0 and 1 have the same between-class variance, 16/3.
Symmetric2x2 == Array("uint8", <<2, 2>>, <<0, 1, 1, 2>>)

Images2D(dtype, levels) ==
    UNION {{Array(dtype, <<1, n>>, d) : d \in [1..n -> levels]} : n \in 1..MaxPix}

ConstantImages == {Array("uint8", <<1, 2>>, <<v, v>>) : v \in 0..255}

Images3D(dtype) ==
    UNION {UNION {{Array(dtype, <<1, w, c>>, d) : d \in [1..(w * c) -> ChannelLevels]}
                  : w \in 1..2} : c \in 1..MaxChan}

\* What load_image hands to main(): a 2-D or 3-D (H, W, C) array of the
\* decoder's element type.  The floating-point bands hold whole numbers.
Images ==
    Images2D("uint8", Levels8) \cup ConstantImages \cup {Clusters4x4, Quarters2x2, Symmetric2x2}
    \cup Images2D("uint16", WideLevels) \cup Images2D("float32", WideLevels)
    \cup Images3D("uint8") \cup Images3D("uint16") \cup Images3D("float32")

\* The band indices process_image is called with (main()'s selectbox offers
\* 1..max_band only; the function itself takes any integer).
Bands == (0 - MaxChan)..(MaxChan + 1)

\* The bin counts create_histogram is called with; 32 is the slider's minimum.
\* Both are powers of two, so numpy's floating-point bin edges are exact.
BinCounts == {4, 32}

\* ------------------------------------------------------------------------
\* process_image
\* ------------------------------------------------------------------------

\* image[:, :, idx] with Python's indexing: a negative idx counts from the
\* end.  The result is a view: it shares the image's memory.
Channel(image, idx) ==
    LET C  == image.shape[3]
        c0 == IF idx < 0 THEN idx + C ELSE idx
        n  == image.shape[1] * image.shape[2]
    IN  [base  |-> image.base,
         dtype |-> image.dtype,
         shape |-> <<image.shape[1], image.shape[2]>>,
         data  |-> [i \in 1..n |-> image.data[(i - 1) * C + c0 + 1]]]

\* Whether image[:, :, idx] raises IndexError.
IndexOutOfBounds(image, idx) ==
    idx >= image.shape[3] \/ idx < 0 - image.shape[3]

\* select_band with the range test of line 65 written band < image.shape[2].
select_band_strict(image, band) ==
    IF Len(image.shape) = 3
    THEN IF band < image.shape[3]
         THEN Channel(image, band - 1)
         ELSE Channel(image, 0)
    ELSE image

\* Lines 64-70: the band process_image works on.
select_band(image, band) ==
    IF Len(image.shape) = 3
    THEN IF band <= image.shape[3]
         THEN Channel(image, band - 1)
         ELSE Channel(image, 0)
    ELSE image

\* Whether lines 64-70 raise.
select_band_raises(image, band) ==
    /\ Len(image.shape) = 3
    /\ band <= image.shape[3]
    /\ IndexOutOfBounds(image, band - 1)

\* cv2.normalize(src, None, 0, 255, cv2.NORM_MINMAX): the exact scaled value
\* (v - smin) * 255 / (smax - smin) as <<numerator, denominator>>, all zero
\* when smax = smin (scale 0, shift 0).
ScaledValues(data) ==
    LET smin == SeqMin(data)
        smax == SeqMax(data)
    IN  [i \in DOMAIN data |->
            IF smax = smin THEN <<0, 1>>
            ELSE <<(data[i] - smin) * 255, smax - smin>>]

\* cvRound: to the nearest integer, ties to even, of q[1] / q[2] >= 0.
cvRound(q) ==
    LET fl == q[1] \div q[2]
        r2 == 2 * (q[1] % q[2])
    IN  IF r2 > q[2] \/ (r2 = q[2] /\ fl % 2 = 1) THEN fl + 1 ELSE fl

\* The destination of cv2.normalize has the source's depth: an integer
\* destination stores saturate_cast(cvRound(x)), a floating one x itself.
cv2_normalize(a) ==
    LET x == ScaledValues(a.data)
    IN  [base  |-> NormBase,
         dtype |-> a.dtype,
         shape |-> a.shape,
         data  |-> [i \in DOMAIN x |->
                       IF a.dtype = "float32" THEN x[i] ELSE <<cvRound(x[i]), 1>>]]

\* ndarray.astype(np.uint8) of non-negative values: the fraction is dropped,
\* the integer wraps modulo 256.
astype_uint8(a) ==
    [base  |-> a.base,
     dtype |-> "uint8",
     shape |-> a.shape,
     data  |-> [i \in DOMAIN a.data |-> (a.data[i][1] \div a.data[i][2]) % 256]]

\* Lines 73-74.
normalize_band(a) ==
    IF a.dtype # "uint8" THEN astype_uint8(cv2_normalize(a)) ELSE a

\* --- skimage.filters.threshold_otsu on an integer image ---

\* weight1, weight2 and the intensity sums behind mean1, mean2 at the bin
\* centre t: the pixels <= t and the pixels > t.
CountLE(data, t) == Cardinality({i \in DOMAIN data : data[i] <= t})

RECURSIVE SumLE(_, _)
SumLE(data, t) ==
    IF data = << >> THEN 0
    ELSE (IF data[1] <= t THEN data[1] ELSE 0) + SumLE(Tail(data), t)

\* variance12 at bin centre t, in binary64:
\* (weight1 * weight2) * (mean1 - mean2) ** 2.
Variance12(data, t) ==
    LET w1 == CountLE(data, t)
        w2 == Len(data) - w1
        s1 == SumLE(data, t)
        s2 == SeqSum(data) - s1
        d  == FSub(FDiv(s1, w1), FDiv(s2, w2))
    IN  FMul(FFromInt(w1 * w2), FMul(d, d))

\* The occupied bin centres below the image's maximum, in increasing order.
RECURSIVE Ascending(_)
Ascending(S) ==
    IF S = {} THEN << >>
    ELSE LET m == CHOOSE x \in S : \A y \in S : x <= y
         IN  <<m>> \o Ascending(S \ {m})

OccupiedCentres(data) ==
    Ascending({data[i] : i \in DOMAIN data} \ {SeqMax(data)})

\* np.argmax over the bin centres min..max-1: the first maximum wins.  The
\* centre of an empty bin repeats its predecessor's operands, hence its
\* variance12, and so never replaces the best: only the occupied centres
\* ts[k..] are evaluated.
RECURSIVE ArgMaxFrom(_, _, _, _, _)
ArgMaxFrom(data, ts, k, best, bestVar) ==
    IF k > Len(ts) THEN best
    ELSE LET v == Variance12(data, ts[k])
         IN  IF FGreater(v, bestVar)
             THEN ArgMaxFrom(data, ts, k + 1, ts[k], v)
             ELSE ArgMaxFrom(data, ts, k + 1, best, bestVar)

\* A single-valued image yields that value; otherwise the histogram has one
\* bin per integer from the image's minimum to its maximum and the result is
\* the bin centre of the first largest variance12.
threshold_otsu(a) ==
    IF IsConstant(a.data) THEN a.data[1]
    ELSE LET ts == OccupiedCentres(a.data)
         IN  ArgMaxFrom(a.data, ts, 2, ts[1], Variance12(a.data, ts[1]))

\* binarize_band with the comparison of line 80 written img_band >= thresh.
binarize_band_ge(a, thresh) ==
    [base  |-> ProcBase,
     dtype |-> "uint8",
     shape |-> a.shape,
     data  |-> [i \in DOMAIN a.data |-> IF a.data[i] >= thresh THEN 255 ELSE 0]]

\* Line 80: (img_band > thresh).astype(np.uint8) * 255, a new array.
binarize_band(a, thresh) ==
    [base  |-> ProcBase,
     dtype |-> "uint8",
     shape |-> a.shape,
     data  |-> [i \in DOMAIN a.data |-> IF a.data[i] > thresh THEN 255 ELSE 0]]

\* Line 76: img_band.copy().
copy(a) == [a EXCEPT !.base = ProcBase]

\* What a call of process_image leaves: the arguments, the outcome, the local
\* img_band of line 70 (selected) and the returned triple.
process_image(image, band, binarize, bins_count) ==
    IF select_band_raises(image, band)
    THEN [status |-> "IndexError", band |-> band, binarize |-> binarize,
          bins_count |-> bins_count, selected |-> NoArray, img_band |-> NoArray,
          processed_img |-> NoArray, thresh |-> None]
    ELSE LET selected == select_band(image, band)
             img_band == normalize_band(selected)
             thresh   == threshold_otsu(img_band)
         IN  [status |-> "ok", band |-> band, binarize |-> binarize,
              bins_count |-> bins_count,
              selected |-> selected,
              img_band |-> img_band,
              processed_img |-> IF binarize
                                THEN binarize_band(img_band, thresh)
                                ELSE copy(img_band),
              thresh |-> IF binarize THEN <<thresh>> ELSE None]

\* ------------------------------------------------------------------------
\* create_histogram: ax.hist(image.flatten(), bins=bins_count), which is
\* np.histogram with no range given.
\* ------------------------------------------------------------------------

\* Twice the outer edges: the data's minimum and maximum, widened by 0.5 on
\* each side when they coincide.
OuterEdges2(data) ==
    LET lo == SeqMin(data)
        hi == SeqMax(data)
    IN  IF lo = hi THEN <<2 * lo - 1, 2 * hi + 1>> ELSE <<2 * lo, 2 * hi>>

\* np.linspace(first, last, k + 1)[i] as <<numerator, denominator>>.
BinEdge(data, k, i) ==
    LET e == OuterEdges2(data)
    IN  <<e[1] * k + i * (e[2] - e[1]), 2 * k>>

\* BinIndex with every bin half-open, the last one too.
BinIndex_open(data, k, v) ==
    LET e == OuterEdges2(data)
    IN  ((2 * v - e[1]) * k) \div (e[2] - e[1])

\* The 0-based bin of v: bins are half-open except the last, which is closed.
BinIndex(data, k, v) ==
    LET e == OuterEdges2(data)
        f == ((2 * v - e[1]) * k) \div (e[2] - e[1])
    IN  IF f >= k THEN k - 1 ELSE f

create_histogram(image, bins_count) ==
    [bins_count |-> bins_count,
     counts |-> [b \in 1..bins_count |->
                    Cardinality({i \in DOMAIN image.data :
                                    BinIndex(image.data, bins_count, image.data[i]) = b - 1})],
     edges  |-> [j \in 1..(bins_count + 1) |-> BinEdge(image.data, bins_count, j - 1)],
     mean   |-> <<SeqSum(image.data), Len(image.data)>>]

\* ------------------------------------------------------------------------
\* calculate_statistics
\* ------------------------------------------------------------------------

RECURSIVE Insert(_, _)
Insert(x, s) == IF s = << >> THEN <<x>>
                ELSE IF x <= s[1] THEN <<x>> \o s
                ELSE <<s[1]>> \o Insert(x, Tail(s))

RECURSIVE Sorted(_)
Sorted(s) == IF s = << >> THEN s ELSE Insert(s[1], Sorted(Tail(s)))

SumSquares(s) == SeqSum([i \in DOMAIN s |-> s[i] * s[i]])

\* Means and variances are kept as <<numerator, denominator>>; the standard
\* deviation is the square root of the variance and is kept as that variance.
calculate_statistics(image) ==
    LET d == image.data
        n == Len(d)
        s == Sorted(d)
        v == <<n * SumSquares(d) - SeqSum(d) * SeqSum(d), n * n>>
    IN  [Media      |-> <<SeqSum(d), n>>,
         Mediana    |-> <<s[(n + 1) \div 2] + s[(n + 2) \div 2], 2>>,
         DesviacionSqrtOf |-> v,
         Varianza   |-> v,
         Minimo     |-> SeqMin(d),
         Maximo     |-> SeqMax(d),
         Rango      |-> SeqMax(d) - SeqMin(d),
         Pixeles    |-> n]

\* ------------------------------------------------------------------------
\* main(): one run of the script on the uploaded image.
\* ------------------------------------------------------------------------

VARIABLES image, pc, result, hist, stats

vars == <<image, pc, result, hist, stats>>

NoResult == [status |-> "none", band |-> 0, binarize |-> FALSE, bins_count |-> 0,
             selected |-> NoArray, img_band |-> NoArray,
             processed_img |-> NoArray, thresh |-> None]

NoHist == [bins_count |-> 0, counts |-> << >>, edges |-> << >>, mean |-> <<0, 1>>]

NoStats == [Pixeles |-> 0]

Init ==
    /\ image \in Images
    /\ pc = "process"
    /\ result = NoResult
    /\ hist = NoHist
    /\ stats = NoStats

\* Line 196, with the sidebar's current band, binarize and bins_count.
ProcessImage ==
    /\ pc = "process"
    /\ \E band \in Bands, binarize \in BOOLEAN, bins_count \in BinCounts :
          result' = process_image(image, band, binarize, bins_count)
    /\ pc' = IF result'.status = "ok" THEN "histogram" ELSE "done"
    /\ UNCHANGED <<image, hist, stats>>

\* Line 230.
CreateHistogram ==
    /\ pc = "histogram"
    /\ hist' = create_histogram(result.img_band, result.bins_count)
    /\ pc' = "statistics"
    /\ UNCHANGED <<image, result, stats>>

\* Lines 235-236 and 246-248 with show_statistics checked.
CalculateStatistics ==
    /\ pc = "statistics"
    /\ stats' = calculate_statistics(result.img_band)
    /\ pc' = "done"
    /\ UNCHANGED <<image, result, hist>>

\* The same lines with show_statistics unchecked.
SkipStatistics ==
    /\ pc = "statistics"
    /\ pc' = "done"
    /\ UNCHANGED <<image, result, hist, stats>>

\* A widget change reruns the script on the same upload; the previous run's
\* locals are gone.
Rerun ==
    /\ pc = "done"
    /\ pc' = "process"
    /\ result' = NoResult
    /\ hist' = NoHist
    /\ stats' = NoStats
    /\ UNCHANGED image

Next ==
    \/ ProcessImage
    \/ CreateHistogram
    \/ CalculateStatistics
    \/ SkipStatistics
    \/ Rerun

Spec == Init /\ [][Next]_vars

\* ------------------------------------------------------------------------
\* Properties.
\* ------------------------------------------------------------------------

Called == result.status # "none"

Returned == result.status = "ok"

Binarized == Returned /\ result.binarize

CountOf(data, v) == Cardinality({i \in DOMAIN data : data[i] = v})

\* --- Otsu's criterion in exact arithmetic ---

\* The between-class variance w0*w1*(mu0-mu1)^2 of {p <= t} and {p > t} as
\* <<numerator, denominator>>: (s0*w1 - s1*w0)^2 / (w0*w1), and 0 when a
\* class is empty.
BetweenClassVariance(data, t) ==
    LET w0 == CountLE(data, t)
        w1 == Len(data) - w0
        s0 == SumLE(data, t)
        s1 == SeqSum(data) - s0
        p  == s0 * w1 - s1 * w0
    IN  IF w0 = 0 \/ w1 = 0 THEN <<0, 1>> ELSE <<p * p, w0 * w1>>

\* x < y for fractions with positive denominators, by cross-multiplication
\* on unbounded integers.
FracLess(x, y) ==
    BigCmp(BigMul(BigFromInt(x[1]), BigFromInt(y[2])),
           BigMul(BigFromInt(y[1]), BigFromInt(x[2]))) < 0

Candidates == 0..254

MaxVariance(data) ==
    LET V == {BetweenClassVariance(data, t) : t \in Candidates}
    IN  CHOOSE v \in V : \A u \in V : ~FracLess(v, u)

Maximizers(data) ==
    LET m == MaxVariance(data)
    IN  {t \in Candidates : ~FracLess(BetweenClassVariance(data, t), m)}

SmallestMaximizer(data) ==
    LET M == Maximizers(data)
    IN  CHOOSE t \in M : \A u \in M : t <= u

\* C1: for every non-constant normalized band, the threshold returned when
\* binarize is set is the smallest candidate t in 0..254 that maximizes the
\* between-class variance of {p <= t} and {p > t}.
C1_SmallestMaximizer ==
    (Binarized /\ ~IsConstant(result.img_band.data))
        => result.thresh = <<SmallestMaximizer(result.img_band.data)>>

\* C2: for every constant-valued band, binarizing returns threshold 0 and an
\* all-zero binary image, without raising.
C2_ConstantBand ==
    (Binarized /\ IsConstant(result.selected.data))
        => /\ result.thresh = <<0>>
           /\ \A i \in DOMAIN result.processed_img.data :
                  result.processed_img.data[i] = 0

ClustersBinarized == image = Clusters4x4 /\ Binarized

\* C3 as stated: the two-cluster 4x4 band yields a threshold strictly between
\* 10 and 200 and a binary image with 8 pixels at 0 and 8 at 255.
C3_StrictlyBetween ==
    ClustersBinarized
        => /\ result.thresh[1] > 10
           /\ result.thresh[1] < 200
           /\ CountOf(result.processed_img.data, 0) = 8
           /\ CountOf(result.processed_img.data, 255) = 8

\* C3 as amended: the two-cluster 4x4 band yields the threshold 10, the lower
\* cluster's own value (10 <= t < 200), and a binary image with 8 pixels at 0
\* and 8 at 255.
C3_LowerCluster ==
    ClustersBinarized
        => /\ result.thresh = <<10>>
           /\ CountOf(result.processed_img.data, 0) = 8
           /\ CountOf(result.processed_img.data, 255) = 8

C3_Witness == ClustersBinarized /\ pc = "done"

\* C4: with binarize set the processed image has the normalized band's shape
\* and a pixel is 255 exactly when the band's intensity there is strictly
\* greater than the returned threshold, 0 otherwise; with binarize not set
\* there is no threshold and the processed image equals the normalized band
\* pixel for pixel.
C4_Binarization ==
    Returned =>
        /\ result.processed_img.shape = result.img_band.shape
        /\ DOMAIN result.processed_img.data = DOMAIN result.img_band.data
        /\ result.binarize =>
              /\ Len(result.thresh) = 1
              /\ \A i \in DOMAIN result.img_band.data :
                     result.processed_img.data[i] =
                         IF result.img_band.data[i] > result.thresh[1] THEN 255 ELSE 0
        /\ ~result.binarize =>
              /\ result.thresh = None
              /\ result.processed_img.data = result.img_band.data

\* A binarized band with a pixel exactly at the threshold (background) and a
\* pixel above it (foreground).
C4_Witness ==
    /\ Binarized
    /\ \E i \in DOMAIN result.img_band.data :
          /\ result.img_band.data[i] = result.thresh[1]
          /\ result.processed_img.data[i] = 0
    /\ \E j \in DOMAIN result.processed_img.data :
          result.processed_img.data[j] = 255

\* C5: the histogram has k counts and k+1 edges evenly spaced across the
\* fixed range 0..256 (edge i = i*256/k) whatever the data; the 2x2 band
\* [[0,64],[128,255]] with k = 4 has counts [1,1,1,1].
C5_FixedRangeEdges ==
    hist.bins_count # 0 =>
        /\ Len(hist.counts) = hist.bins_count
        /\ Len(hist.edges) = hist.bins_count + 1
        /\ \A i \in 0..hist.bins_count :
               hist.edges[i + 1][1] * hist.bins_count = i * 256 * hist.edges[i + 1][2]
        /\ (image = Quarters2x2 /\ hist.bins_count = 4) => hist.counts = <<1, 1, 1, 1>>

\* q[1] / q[2] >= 0 rounded to the nearest integer.
RoundNearest(q) == (2 * q[1] + q[2]) \div (2 * q[2])

\* C6: a band whose element type is not 8-bit is normalized to
\* round((v - min) * 255 / (max - min)), to the nearest integer, within
\* 0..255 and with the shape kept; a constant band becomes all 0.
C6_RoundedNormalization ==
    (Returned /\ result.selected.dtype # "uint8") =>
        LET src == result.selected.data
            lo  == SeqMin(src)
            hi  == SeqMax(src)
        IN  /\ result.img_band.shape = result.selected.shape
            /\ DOMAIN result.img_band.data = DOMAIN src
            /\ \A i \in DOMAIN src :
                   /\ result.img_band.data[i] \in 0..255
                   /\ result.img_band.data[i] =
                          IF lo = hi THEN 0
                          ELSE RoundNearest(<<(src[i] - lo) * 255, hi - lo>>)

\* The plane of channel c (0-based) of a 3-D image, pixel by pixel.
Plane(img, c) ==
    [i \in 1..(img.shape[1] * img.shape[2]) |-> img.data[(i - 1) * img.shape[3] + c + 1]]

\* C7: band selection never fails for a positive band index b: a 2-D image
\* is returned as it is, a 3-D image with C channels gives channel b-1 when
\* 1 <= b <= C and channel 0 when b > C.
C7_BandSelection ==
    (Called /\ result.band >= 1) =>
        /\ Returned
        /\ Len(image.shape) = 2 => result.selected = image
        /\ Len(image.shape) = 3 =>
              /\ result.selected.shape = <<image.shape[1], image.shape[2]>>
              /\ result.selected.data =
                     IF result.band <= image.shape[3]
                     THEN Plane(image, result.band - 1)
                     ELSE Plane(image, 0)

\* An out-of-range band index on an image whose first and last channels
\* differ.
C7_Witness ==
    /\ Returned
    /\ Len(image.shape) = 3
    /\ result.band > image.shape[3]
    /\ Plane(image, 0) # Plane(image, image.shape[3] - 1)
    /\ result.selected.data = Plane(image, 0)

\* C8: for a 3-D image a band index b <= 0 is rejected with an error outcome
\* and no band is returned.
C8_NonPositiveRejected ==
    (Called /\ Len(image.shape) = 3 /\ result.band <= 0) =>
        /\ ~Returned
        /\ result.img_band = NoArray

\* C9: the histogram's counts sum to the number of pixels of the band.
C9_Conservation ==
    hist.bins_count # 0 =>
        SeqSum(hist.counts) = Len(result.img_band.data)

\* A histogram of a non-constant band whose maximum was counted in the last,
\* closed bin.
C9_Witness ==
    /\ hist.bins_count # 0
    /\ ~IsConstant(result.img_band.data)
    /\ hist.counts[hist.bins_count] >= 1
    /\ hist.counts[1] >= 1

\* C10: the band and the processed image returned by process_image are
\* arrays distinct from the input image (an 8-bit band is returned as a
\* copy), whatever was called since, so that writing to them cannot change
\* the input.  No action assigns image: its contents are never written.
C10_ReturnsNewArrays ==
    Returned =>
        /\ result.img_band.base # image.base
        /\ result.processed_img.base # image.base
====
